---- MODULE Spec2Model ----
(***************************************************************************)
(* A model of Scripts/dictionary/dict_parser.py: the StarDict readers      *)
(* (read_idx, read_syn), the locator sort key (version_key) and the main   *)
(* processing that builds, resolves, sorts and writes the entries; and of  *)
(* the proofreading scripts under Scripts/AI_Generated: the split into     *)
(* part files, the removal of resolved entries and the backport.           *)
(*                                                                         *)
(* Byte strings are sequences over 0..255; text is a sequence of code      *)
(* points.  A Python dict is a sequence of [key, ...] records with         *)
(* pairwise distinct keys, in insertion order.                             *)
(***************************************************************************)
EXTENDS Integers, Sequences, FiniteSets, TLC

VARIABLES
    vstr,            \* version_key: the argument
    key_out,         \* version_key: the returned tuple
    key_pc,          \* version_key: "idle" | "call" | "ret"
    in_recs,         \* readers: the complete records the stream starts with
    in_tail,         \* readers: the bytes that follow them
    stream,          \* readers: the file's bytes
    idx_ret,         \* readers: what read_idx did on stream
    syn_ret,         \* readers: what read_syn did on stream
    rd_pc,           \* readers: "idle" | "idx" | "syn" | "ret"
    ifo_lines,       \* read_ifo: the lines of the descriptor file
    ifo_out,         \* read_ifo: what read_ifo did on them
    ifo_pc,          \* read_ifo: "idle" | "call" | "ret"
    listing,         \* run: the kinds of file os.listdir finds in the folder
    ifo_file,        \* run: the bytes of the .ifo file
    idx_file,        \* run: the bytes of the .idx file
    dict_file,       \* run: the (uncompressed) bytes of the .dict file
    syn_file,        \* run: [exists, data], the .syn file
    metadata,        \* run: what read_ifo returned, [key, val] in insertion order
    idx,             \* run: what read_idx returned, [tag, val]
    dict_data,       \* run: the blob
    syn_map,         \* run: what read_syn returned
    json_entries,    \* run: the entries dict, [key, val] in insertion order
    i_main,          \* run: idx items the main-word loop has taken
    i_syn,           \* run: syn_map items the synonym loop has taken
    main_word,       \* run: the synonym loop's main_word, [found, word]
    sorted_entries,  \* run: the sorted (key, entry) list
    out_file,        \* run: [written, doc], the output file
    err,             \* run: [exc, step, at], the exception that ended the run
    pc,              \* run: the statement the run is at
    run,             \* the number of the run of the script: 1, then 2
    first_doc        \* what the first run left in the output file

VARIABLES
    sp_original,     \* split: the mapping in the input file, [key, val] in file order
    sp_num_parts,    \* split: num_parts
    sp_folder,       \* split: the output folder, part number -> part file or NoFile
    sp_valid,        \* split: what verify_split returned, [tag, is_valid]
    sp_pc,           \* split: "idle" | "split" | "verify" | "ret"
    rm_folder,       \* removal: the part files of the folder, [header_lines, data]
    rm_start,        \* removal: the part files as the pass found them
    dry_run,         \* removal: the pass was started with --dry-run
    rm_i,            \* removal: part files the pass has handled
    rm_totals,       \* removal: [total_before, total_after, total_removed]
    rm_pass,         \* removal: the number of the pass: 1, then 2
    rm_first,        \* removal: [dry_run, totals] of the first pass
    rm_pc,           \* removal: "idle" | "pass" | "done"
    bp_changes,      \* backport: changes_data, the edited entries in file order
    bp_data,         \* backport: the source-of-truth file, as loaded
    bp_before,       \* backport: the file as the last turn of the loop found it
    bp_ret,          \* backport: the last turn: "idle" | "no_file" | "updated" | "not_found"
    bp_i,            \* backport: entries the loop has taken
    bp_counts,       \* backport: [updated_count, not_found_count]
    bp_pc            \* backport: "idle" | "loop" | "done"

keyVars == <<vstr, key_out, key_pc>>

rdVars == <<in_recs, in_tail, stream, idx_ret, syn_ret, rd_pc>>

inVars == <<listing, ifo_file, idx_file, dict_file, syn_file>>

rerunVars == <<run, first_doc>>

runVars == <<inVars, metadata, idx, dict_data, syn_map, json_entries, i_main, i_syn,
             main_word, sorted_entries, out_file, err, pc, rerunVars>>

ifoVars == <<ifo_lines, ifo_out, ifo_pc>>

splitVars == <<sp_original, sp_num_parts, sp_folder, sp_valid, sp_pc>>

removeVars == <<rm_folder, rm_start, dry_run, rm_i, rm_totals, rm_pass, rm_first, rm_pc>>

backportVars == <<bp_changes, bp_data, bp_before, bp_ret, bp_i, bp_counts, bp_pc>>

yamlVars == <<splitVars, removeVars, backportVars>>

auxVars == <<ifoVars, yamlVars>>

vars == <<keyVars, rdVars, runVars, auxVars>>

(***************************************************************************)
(* Characters the code names.                                              *)
(***************************************************************************)
NUL == 0
NL == 10
SP == 32
DOT == 46

\* The longest locator string handed to version_key.
MaxLen == 5

(***************************************************************************)
(* str.split(sep) with a one-character separator: every occurrence of sep  *)
(* ends a field, so n separators give n + 1 fields, empty ones included.   *)
(***************************************************************************)
RECURSIVE SplitFrom(_, _, _, _)
SplitFrom(s, sep, i, cur) ==
    IF i > Len(s) THEN <<cur>>
    ELSE IF s[i] = sep THEN <<cur>> \o SplitFrom(s, sep, i + 1, <<>>)
    ELSE SplitFrom(s, sep, i + 1, Append(cur, s[i]))

str_split(s, sep) == SplitFrom(s, sep, 1, <<>>)

(***************************************************************************)
(* int(part): surrounding whitespace is stripped, one sign is allowed,     *)
(* then decimal digits, with single underscores between digits.  The       *)
(* result is [ok, val]; ok = FALSE stands for ValueError.                  *)
(***************************************************************************)
IsSpace(c) == c \in {9, 10, 11, 12, 13, 28, 29, 30, 31, 32, 133, 160}

IsDigit(c) == c \in 48..57

RECURSIVE lstrip(_)
lstrip(s) == IF s # <<>> /\ IsSpace(Head(s)) THEN lstrip(Tail(s)) ELSE s

RECURSIVE rstrip(_)
rstrip(s) ==
    IF s # <<>> /\ IsSpace(s[Len(s)]) THEN rstrip(SubSeq(s, 1, Len(s) - 1)) ELSE s

RECURSIVE DigitsValue(_, _)
DigitsValue(s, acc) ==
    IF s = <<>> THEN acc
    ELSE IF IsDigit(Head(s)) THEN DigitsValue(Tail(s), 10 * acc + (Head(s) - 48))
    ELSE DigitsValue(Tail(s), acc)

IntBodyOk(s) ==
    /\ Len(s) > 0
    /\ \A i \in 1..Len(s) :
        \/ IsDigit(s[i])
        \/ /\ s[i] = 95
           /\ i > 1 /\ i < Len(s)
           /\ IsDigit(s[i - 1]) /\ IsDigit(s[i + 1])

py_int(part) ==
    LET t == rstrip(lstrip(part))
        signed == t # <<>> /\ t[1] \in {43, 45}
        body == IF signed THEN Tail(t) ELSE t
    IN  IF IntBodyOk(body)
        THEN [ok |-> TRUE,
              val |-> IF signed /\ t[1] = 45
                      THEN 0 - DigitsValue(body, 0) ELSE DigitsValue(body, 0)]
        ELSE [ok |-> FALSE, val |-> 0]

(***************************************************************************)
(* version_key(vstr).  Every value it is given here is a str, so the       *)
(* isinstance branch is not taken.  One number is appended per part.       *)
(***************************************************************************)
version_key_skip(s) ==
    LET parts == str_split(s, DOT)
        RECURSIVE nums(_)
        nums(i) ==
            IF i > Len(parts) THEN <<>>
            ELSE IF py_int(parts[i]).ok
                 THEN <<py_int(parts[i]).val>> \o nums(i + 1)
                 ELSE nums(i + 1)
    IN  nums(1)

version_key(s) ==
    LET parts == str_split(s, DOT)
    IN  [i \in 1..Len(parts) |->
            IF py_int(parts[i]).ok THEN py_int(parts[i]).val ELSE 0]

(***************************************************************************)
(* Specification SpecKey: version_key applied to every locator string of   *)
(* at most MaxLen characters over KeyChars.                                *)
(***************************************************************************)
KeyChars == {49, 50, 120, 45, SP, DOT}

KeyStrings == UNION {[1..n -> KeyChars] : n \in 0..MaxLen}

KeyIdle == vstr = <<>> /\ key_out = <<>> /\ key_pc = "idle"

ReadersIdle ==
    /\ in_recs = <<>> /\ in_tail = <<>> /\ stream = <<>>
    /\ idx_ret = [tag |-> "idle"] /\ syn_ret = [tag |-> "idle"]
    /\ rd_pc = "idle"

IfoIdle == ifo_lines = <<>> /\ ifo_out = [tag |-> "idle"] /\ ifo_pc = "idle"

NoFile == [exists |-> FALSE]

SplitIdle ==
    /\ sp_original = <<>>
    /\ sp_num_parts = 0
    /\ sp_folder = <<>>
    /\ sp_valid = [tag |-> "idle"]
    /\ sp_pc = "idle"

NoTotals == [total_before |-> 0, total_after |-> 0, total_removed |-> 0]

NoPass == [dry_run |-> FALSE, totals |-> NoTotals]

RemoveIdle ==
    /\ rm_folder = <<>>
    /\ rm_start = <<>>
    /\ dry_run = FALSE
    /\ rm_i = 0
    /\ rm_totals = NoTotals
    /\ rm_pass = 0
    /\ rm_first = NoPass
    /\ rm_pc = "idle"

NoCounts == [updated_count |-> 0, not_found_count |-> 0]

BackportIdle ==
    /\ bp_changes = <<>>
    /\ bp_data = <<>>
    /\ bp_before = <<>>
    /\ bp_ret = "idle"
    /\ bp_i = 0
    /\ bp_counts = NoCounts
    /\ bp_pc = "idle"

YamlIdle == SplitIdle /\ RemoveIdle /\ BackportIdle

AuxIdle == IfoIdle /\ YamlIdle

NoError == [exc |-> "", step |-> "", at |-> 0]

\* main_word before the synonym loop assigns it, and when it is None.
NoMainWord == [found |-> FALSE, word |-> <<>>]

Unset == [tag |-> "unset", val |-> <<>>, exc |-> ""]

NotWritten == [written |-> FALSE, doc |-> <<>>]

RunIdle ==
    /\ listing = {} /\ ifo_file = <<>>
    /\ idx_file = <<>> /\ dict_file = <<>>
    /\ syn_file = [exists |-> FALSE, data |-> <<>>]
    /\ metadata = <<>>
    /\ run = 0 /\ first_doc = <<>>
    /\ idx = Unset /\ dict_data = <<>> /\ syn_map = <<>>
    /\ json_entries = <<>> /\ i_main = 0 /\ i_syn = 0
    /\ main_word = NoMainWord
    /\ sorted_entries = <<>> /\ out_file = NotWritten
    /\ err = NoError /\ pc = "idle"

InitKey ==
    /\ vstr \in KeyStrings
    /\ key_out = <<>>
    /\ key_pc = "call"
    /\ ReadersIdle
    /\ RunIdle
    /\ AuxIdle

CallVersionKey ==
    /\ key_pc = "call"
    /\ key_out' = version_key(vstr)
    /\ key_pc' = "ret"
    /\ UNCHANGED <<vstr, rdVars, runVars, auxVars>>

NextKey == CallVersionKey

SpecKey == InitKey /\ [][NextKey]_vars

(***************************************************************************)
(* What the claims about version_key speak of, stated without the code's   *)
(* split and int: the segments between the dots, and a decimal literal.    *)
(***************************************************************************)
SepsAt(s, sep) == {i \in 1..Len(s) : s[i] = sep}

NumFields(s, sep) == Cardinality(SepsAt(s, sep)) + 1

\* The k-th field: the text between the (k-1)-th and the k-th separator.
Field(s, sep, k) ==
    LET bounds == {0, Len(s) + 1} \cup SepsAt(s, sep)
        nth(j) == CHOOSE p \in bounds : Cardinality({q \in bounds : q < p}) = j
    IN  SubSeq(s, nth(k - 1) + 1, nth(k) - 1)

NumSegments(s) == NumFields(s, DOT)

Segment(s, k) == Field(s, DOT, k)

\* seg is optional blanks, an optional sign, one or more digits, optional blanks.
IsIntLiteral(seg) ==
    \E a \in 1..Len(seg) : \E b \in a..Len(seg) :
        /\ \A i \in a..b : IsDigit(seg[i])
        /\ \A i \in (b + 1)..Len(seg) : IsSpace(seg[i])
        /\ \/ \A i \in 1..(a - 1) : IsSpace(seg[i])
           \/ /\ seg[a - 1] \in {43, 45}
              /\ \A i \in 1..(a - 2) : IsSpace(seg[i])

RECURSIVE Pow10(_)
Pow10(n) == IF n = 0 THEN 1 ELSE 10 * Pow10(n - 1)

RECURSIVE SumOver(_, _)
SumOver(S, f) ==
    IF S = {} THEN 0
    ELSE LET x == CHOOSE y \in S : TRUE IN f[x] + SumOver(S \ {x}, f)

LiteralValue(seg) ==
    LET ds == {i \in 1..Len(seg) : IsDigit(seg[i])}
        last == CHOOSE i \in ds : \A j \in ds : j <= i
        mag == SumOver(ds, [i \in ds |-> (seg[i] - 48) * Pow10(last - i)])
    IN  IF \E i \in 1..Len(seg) : seg[i] = 45 THEN 0 - mag ELSE mag

SegmentNumber(seg) == IF IsIntLiteral(seg) THEN LiteralValue(seg) ELSE 0

\* C7: a locator that does not have exactly three dot-separated segments
\* gets the key (0, 0, 0), and every key has length 3.
C7_DefaultKey ==
    key_pc = "ret" =>
        /\ Len(key_out) = 3
        /\ NumSegments(vstr) # 3 => key_out = <<0, 0, 0>>

\* C8: a locator with exactly three dot-separated segments gets the 3-tuple
\* of its segments' integer values, 0 for a segment that is no integer.
C8_ThreeSegments ==
    (key_pc = "ret" /\ NumSegments(vstr) = 3) =>
        key_out = <<SegmentNumber(Segment(vstr, 1)),
                    SegmentNumber(Segment(vstr, 2)),
                    SegmentNumber(Segment(vstr, 3))>>

\* C8's case: a three-segment locator with a non-integer middle segment
\* and integer outer segments has been keyed.
C8_Witness ==
    /\ key_pc = "ret"
    /\ NumSegments(vstr) = 3
    /\ ~IsIntLiteral(Segment(vstr, 2))
    /\ Segment(vstr, 2) # <<>>
    /\ key_out[1] > 0 /\ key_out[3] > 0

(***************************************************************************)
(* The binary readers.  A reader's outcome is [tag, val, exc]:             *)
(*   tag = "ok"     it returned the dict val;                              *)
(*   tag = "none"   it fell off its end and returned None;                 *)
(*   tag = "raise"  it raised exc.                                         *)
(***************************************************************************)
Returned(d) == [tag |-> "ok", val |-> d, exc |-> ""]

ReturnedNone == [tag |-> "none", val |-> <<>>, exc |-> ""]

Raised(e) == [tag |-> "raise", val |-> <<>>, exc |-> e]

Min(a, b) == IF a <= b THEN a ELSE b

\* d[word] = (offset, size): a key already there keeps its place.
DictSet(d, word, offset, size) ==
    LET new == [key |-> word, offset |-> offset, size |-> size]
    IN  IF \E i \in 1..Len(d) : d[i].key = word
        THEN [i \in 1..Len(d) |-> IF d[i].key = word THEN new ELSE d[i]]
        ELSE Append(d, new)

\* f.read(n) at position pos: the bytes that are left, at most n of them.
f_read(data, pos, n) == SubSeq(data, pos, Min(pos + n - 1, Len(data)))

\* The inner loop: bytes up to the next NUL; eof when the file ends first.
ReadWord(data, pos) ==
    LET nuls == {i \in pos..Len(data) : data[i] = NUL}
    IN  IF nuls = {}
        THEN [eof |-> TRUE, word |-> <<>>, next |-> Len(data) + 1]
        ELSE LET z == CHOOSE i \in nuls : \A j \in nuls : i <= j
             IN  [eof |-> FALSE, word |-> SubSeq(data, pos, z - 1), next |-> z + 1]

\* struct.unpack('>I', b)[0] of a 4-byte buffer.
unpack_I_short(b) == b[3] * 256 + b[4]

unpack_I(b) == ((b[1] * 256 + b[2]) * 256 + b[3]) * 256 + b[4]

(***************************************************************************)
(* bytes.decode('utf-8') of a byte string with no byte above 0xDF (the     *)
(* byte strings drawn here have none): a byte below 0x80 is itself, a lead *)
(* byte 0xC2..0xDF takes one continuation byte 0x80..0xBF, anything else   *)
(* is UnicodeDecodeError (ok = FALSE).                                     *)
(***************************************************************************)
RECURSIVE utf8_from(_, _, _)
utf8_from(b, i, acc) ==
    IF i > Len(b) THEN [ok |-> TRUE, text |-> acc]
    ELSE IF b[i] < 128 THEN utf8_from(b, i + 1, Append(acc, b[i]))
    ELSE IF /\ b[i] \in 194..223
            /\ i < Len(b)
            /\ b[i + 1] \in 128..191
         THEN utf8_from(b, i + 2, Append(acc, (b[i] - 192) * 64 + (b[i + 1] - 128)))
         ELSE [ok |-> FALSE, text |-> <<>>]

decode_utf8(b) == utf8_from(b, 1, <<>>)

\* bytes.decode('latin1'): byte n is the code point n; it never fails.
decode_latin1(b) == [i \in 1..Len(b) |-> b[i]]

RECURSIVE read_idx_from(_, _, _)
read_idx_from(data, pos, d) ==
    LET w == ReadWord(data, pos)
        word == decode_utf8(w.word)
        offset_bytes == f_read(data, w.next, 4)
        size_bytes == f_read(data, w.next + Len(offset_bytes), 4)
    IN  IF w.eof THEN Returned(d)
        ELSE IF ~word.ok THEN Raised("UnicodeDecodeError")
        ELSE IF offset_bytes = <<>> \/ size_bytes = <<>> THEN ReturnedNone
        ELSE IF Len(offset_bytes) # 4 \/ Len(size_bytes) # 4
             THEN Raised("struct.error")
        ELSE read_idx_from(data, w.next + 8,
                 DictSet(d, word.text, unpack_I(offset_bytes), unpack_I(size_bytes)))

read_idx(data) == read_idx_from(data, 1, <<>>)

RECURSIVE read_syn_from(_, _, _)
read_syn_from(data, pos, syn) ==
    LET w == ReadWord(data, pos)
        syn_word == decode_latin1(w.word)
        offset_bytes == f_read(data, w.next, 4)
        size_bytes == f_read(data, w.next + Len(offset_bytes), 4)
    IN  IF w.eof THEN Returned(syn)
        ELSE IF w.word = <<>> THEN read_syn_from(data, w.next, syn)
        ELSE IF offset_bytes = <<>> \/ size_bytes = <<>> THEN Returned(syn)
        ELSE IF Len(offset_bytes) # 4 \/ Len(size_bytes) # 4
             THEN Raised("struct.error")
        ELSE read_syn_from(data, w.next + 8,
                 DictSet(syn, syn_word, unpack_I(offset_bytes), unpack_I(size_bytes)))

\* file is [exists, data]: no path, or no file at the path, gives {}.
read_syn(file) ==
    IF ~file.exists THEN Returned(<<>>) ELSE read_syn_from(file.data, 1, <<>>)

(***************************************************************************)
(* read_ifo.  The file is opened as UTF-8 text, so CR LF and a lone CR     *)
(* reach the loop as a line feed.  A line with "=" gives meta[key] = val,  *)
(* both stripped, the key being what stands before the first "=".          *)
(***************************************************************************)
CR == 13
EQ == 61

RECURSIVE universal_newlines(_)
universal_newlines(t) ==
    IF t = <<>> THEN <<>>
    ELSE IF Head(t) = CR
         THEN <<NL>> \o universal_newlines(IF Len(t) > 1 /\ t[2] = NL
                                           THEN Tail(Tail(t)) ELSE Tail(t))
         ELSE <<Head(t)>> \o universal_newlines(Tail(t))

strip(s) == rstrip(lstrip(s))

\* line.split(sep, 1) of a line that holds sep: (before, after) the first sep.
split_at_last(line, sep) ==
    LET p == CHOOSE i \in 1..Len(line) :
                 line[i] = sep /\ \A j \in (i + 1)..Len(line) : line[j] # sep
    IN  <<SubSeq(line, 1, p - 1), SubSeq(line, p + 1, Len(line))>>

split_once(line, sep) ==
    LET p == CHOOSE i \in 1..Len(line) :
                 line[i] = sep /\ \A j \in 1..(i - 1) : line[j] # sep
    IN  <<SubSeq(line, 1, p - 1), SubSeq(line, p + 1, Len(line))>>

\* meta[key] = val: a key already there keeps its place.
MetaSet(meta, key, val) ==
    LET new == [key |-> key, val |-> val]
    IN  IF \E i \in 1..Len(meta) : meta[i].key = key
        THEN [i \in 1..Len(meta) |-> IF meta[i].key = key THEN new ELSE meta[i]]
        ELSE Append(meta, new)

RECURSIVE read_ifo_lines(_, _)
read_ifo_lines(lines, meta) ==
    IF lines = <<>> THEN meta
    ELSE LET line == strip(Head(lines))
         IN  IF \E i \in 1..Len(line) : line[i] = EQ
             THEN LET kv == split_once(line, EQ)
                  IN  read_ifo_lines(Tail(lines), MetaSet(meta, strip(kv[1]), strip(kv[2])))
             ELSE read_ifo_lines(Tail(lines), meta)

read_ifo(data) ==
    LET t == decode_utf8(data)
    IN  IF ~t.ok THEN Raised("UnicodeDecodeError")
        ELSE Returned(read_ifo_lines(str_split(universal_newlines(t.text), NL), <<>>))

(***************************************************************************)
(* Specification SpecReaders: read_idx and read_syn applied to a stream    *)
(* that is at most MaxRecs complete records followed by a proper prefix    *)
(* (possibly empty) of one more record.                                    *)
(***************************************************************************)
MaxRecs == 2

RecWords == {<<>>, <<97>>, <<98>>}

RecRanges == {<<0, 258>>, <<258, 1>>, <<2147483647, 0>>}

Records == {[word |-> w, offset |-> r[1], size |-> r[2]] : w \in RecWords, r \in RecRanges}

\* The 4-byte big-endian form of n.
pack_I(n) == <<(n \div 16777216) % 256, (n \div 65536) % 256, (n \div 256) % 256, n % 256>>

EncodeRecord(r) == r.word \o <<NUL>> \o pack_I(r.offset) \o pack_I(r.size)

RECURSIVE EncodeRecords(_)
EncodeRecords(rs) ==
    IF rs = <<>> THEN <<>> ELSE EncodeRecord(Head(rs)) \o EncodeRecords(Tail(rs))

Tails == {SubSeq(EncodeRecord(r), 1, n) : r \in Records, n \in 0..(1 + 8)}

InitReaders ==
    /\ in_recs \in UNION {[1..n -> Records] : n \in 0..MaxRecs}
    /\ in_tail \in Tails
    /\ stream = EncodeRecords(in_recs) \o in_tail
    /\ idx_ret = [tag |-> "idle"]
    /\ syn_ret = [tag |-> "idle"]
    /\ rd_pc = "idx"
    /\ KeyIdle
    /\ RunIdle
    /\ AuxIdle

CallReadIdx ==
    /\ rd_pc = "idx"
    /\ idx_ret' = read_idx(stream)
    /\ rd_pc' = "syn"
    /\ UNCHANGED <<in_recs, in_tail, stream, syn_ret, keyVars, runVars, auxVars>>

CallReadSyn ==
    /\ rd_pc = "syn"
    /\ syn_ret' = read_syn([exists |-> TRUE, data |-> stream])
    /\ rd_pc' = "ret"
    /\ UNCHANGED <<in_recs, in_tail, stream, idx_ret, keyVars, runVars, auxVars>>

NextReaders == CallReadIdx \/ CallReadSyn

SpecReaders == InitReaders /\ [][NextReaders]_vars

\* The records a dict holds, as a set of (word, offset, size).
DictItems(d) == {<<d[i].key, d[i].offset, d[i].size>> : i \in 1..Len(d)}

\* The mapping a record list stands for: each word with its last (offset, size).
MappingOf(rs) ==
    {<<rs[i].word, rs[i].offset, rs[i].size>> : i \in
        {i \in 1..Len(rs) : \A j \in (i + 1)..Len(rs) : rs[j].word # rs[i].word}}

\* The tail is a complete null-terminated word and then 0 to 7 bytes.
TailIsWordThenPartial ==
    \E n \in 1..Len(in_tail) :
        /\ in_tail[n] = NUL
        /\ \A i \in 1..(n - 1) : in_tail[i] # NUL
        /\ Len(in_tail) - n \in 0..7

\* C2: on k complete records followed by a word and 0 to 7 bytes of
\* offset/size data, read_idx and read_syn both return, without raising,
\* the mapping of exactly the k complete records.
C2_TruncatedRecordDropped ==
    (rd_pc = "ret" /\ TailIsWordThenPartial) =>
        /\ idx_ret.tag = "ok" /\ DictItems(idx_ret.val) = MappingOf(in_recs)
        /\ syn_ret.tag = "ok" /\ DictItems(syn_ret.val) = MappingOf(in_recs)

(***************************************************************************)
(* Main processing: one run of the script over an input folder.            *)
(***************************************************************************)
\* data[a:b] for 0 <= a <= b: cut at the end of data, never an error.
py_slice_inclusive(data, a, b) == SubSeq(data, a + 1, Min(b + 1, Len(data)))

py_slice(data, a, b) == SubSeq(data, a + 1, Min(b, Len(data)))

\* The try/except around the slice's decode: UTF-8, else latin1.
decode_meaning(bytes) ==
    IF decode_utf8(bytes).ok THEN decode_utf8(bytes).text ELSE decode_latin1(bytes)

\* json_entries[key] = val: a key already there keeps its place.
EntrySet_reset(d, key, val) == <<[key |-> key, val |-> val]>>

EntrySet(d, key, val) ==
    LET new == [key |-> key, val |-> val]
    IN  IF \E i \in 1..Len(d) : d[i].key = key
        THEN [i \in 1..Len(d) |-> IF d[i].key = key THEN new ELSE d[i]]
        ELSE Append(d, new)

EntryOf(d, key) == d[CHOOSE i \in 1..Len(d) : d[i].key = key].val

\* The body of the main-word loop for one idx item: the new entry, or the
\* IndexError of entities[1] / entities[2].
main_entry_no_locator(data, rec) ==
    LET meaning == decode_meaning(py_slice(data, rec.offset, rec.offset + rec.size))
        entities == str_split(meaning, NL)
    IN  IF Len(entities) < 3
        THEN [ok |-> FALSE, exc |-> "IndexError", val |-> <<>>]
        ELSE [ok |-> TRUE, exc |-> "",
              val |-> [artha |-> entities[1],
                       synonyms |-> str_split(entities[3], SP)]]

main_entry(data, rec) ==
    LET meaning == decode_meaning(py_slice(data, rec.offset, rec.offset + rec.size))
        entities == str_split(meaning, NL)
    IN  IF Len(entities) < 3
        THEN [ok |-> FALSE, exc |-> "IndexError", val |-> <<>>]
        ELSE [ok |-> TRUE, exc |-> "",
              val |-> [artha |-> entities[1],
                       text_number |-> entities[2],
                       synonyms |-> str_split(entities[3], SP)]]

\* The inner scan of the synonym loop: the first idx word with this
\* (offset, size); found = FALSE is main_word = None.
main_word_of_offset(d, offset, size) ==
    LET hits == {i \in 1..Len(d) : d[i].offset = offset}
    IN  IF hits = {} THEN [found |-> FALSE, word |-> <<>>]
        ELSE [found |-> TRUE, word |-> d[CHOOSE i \in hits : \A j \in hits : i <= j].key]

main_word_of_last(d, offset, size) ==
    LET hits == {i \in 1..Len(d) : d[i].offset = offset /\ d[i].size = size}
    IN  IF hits = {} THEN [found |-> FALSE, word |-> <<>>]
        ELSE [found |-> TRUE, word |-> d[CHOOSE i \in hits : \A j \in hits : j <= i].key]

main_word_of(d, offset, size) ==
    LET hits == {i \in 1..Len(d) : d[i].offset = offset /\ d[i].size = size}
    IN  IF hits = {} THEN [found |-> FALSE, word |-> <<>>]
        ELSE [found |-> TRUE, word |-> d[CHOOSE i \in hits : \A j \in hits : i <= j].key]

\* Python's order on tuples of ints: the first difference decides, and a
\* proper prefix is smaller.
RECURSIVE tuple_lt(_, _)
tuple_lt(a, b) ==
    IF b = <<>> THEN FALSE
    ELSE IF a = <<>> THEN TRUE
    ELSE IF Head(a) # Head(b) THEN Head(a) < Head(b)
    ELSE tuple_lt(Tail(a), Tail(b))

\* The key of sorted(): lambda item: version_key(item[1]["text_number"]).
sort_key_text(item) == item.val.text_number

sort_key(item) == version_key(item.val.text_number)

\* sorted() is stable: an item goes before the first item whose key is
\* greater than its own, so after every item with an equal key.
insert_sorted_unstable(acc, x) ==
    LET later == {i \in 1..Len(acc) : ~tuple_lt(sort_key(acc[i]), sort_key(x))}
    IN  IF later = {} THEN Append(acc, x)
        ELSE LET p == CHOOSE i \in later : \A j \in later : i <= j
             IN  SubSeq(acc, 1, p - 1) \o <<x>> \o SubSeq(acc, p, Len(acc))

insert_sorted(acc, x) ==
    LET later == {i \in 1..Len(acc) : tuple_lt(sort_key(x), sort_key(acc[i]))}
    IN  IF later = {} THEN Append(acc, x)
        ELSE LET p == CHOOSE i \in later : \A j \in later : i <= j
             IN  SubSeq(acc, 1, p - 1) \o <<x>> \o SubSeq(acc, p, Len(acc))

RECURSIVE sorted_from(_, _)
sorted_from(items, acc) ==
    IF items = <<>> THEN acc
    ELSE sorted_from(Tail(items), insert_sorted(acc, Head(items)))

py_sorted(items) == sorted_from(items, <<>>)

HasField(entry, f) == f \in DOMAIN entry

\* "bookname", "version", "author": the metadata keys the output reads.
K_bookname == <<98, 111, 111, 107, 110, 97, 109, 101>>

K_version == <<118, 101, 114, 115, 105, 111, 110>>

K_author == <<97, 117, 116, 104, 111, 114>>

\* "Unknown Dictionary"
UnknownDictionary ==
    <<85, 110, 107, 110, 111, 119, 110, 32, 68, 105, 99, 116, 105, 111, 110, 97, 114, 121>>

\* metadata.get(key, default)
meta_get(meta, key, default) ==
    IF \E i \in 1..Len(meta) : meta[i].key = key
    THEN meta[CHOOSE i \in 1..Len(meta) : meta[i].key = key].val
    ELSE default

\* final_json: the document that is dumped to the output file.
final_json_swapped(meta, entries) ==
    [dictionary_name |-> meta_get(meta, K_bookname, UnknownDictionary),
     version |-> meta_get(meta, K_author, <<>>),
     author |-> meta_get(meta, K_version, <<>>),
     entries |-> entries]

final_json(meta, entries) ==
    [dictionary_name |-> meta_get(meta, K_bookname, UnknownDictionary),
     version |-> meta_get(meta, K_version, <<>>),
     author |-> meta_get(meta, K_author, <<>>),
     entries |-> entries]

\* The test of line 131 on the kinds of file found in the folder.
missing_required_all(ls) == "ifo" \notin ls /\ "idx" \notin ls /\ "dict" \notin ls

missing_required(ls) == "ifo" \notin ls \/ "idx" \notin ls \/ "dict" \notin ls

(***************************************************************************)
(* The input folders of specification Spec.  The blob is at most MaxDefs   *)
(* definitions of Defs laid end to end; the index gives its first words    *)
(* (at most MaxWords) byte ranges of the blob; the synonym file, when      *)
(* there is one, gives at most MaxSyn words a byte range.                  *)
(***************************************************************************)
MaxDefs == 2
MaxWords == 2
MaxSyn == 1

\* "g\n2.1.1\ns  t", "h\xff\n12\ns", "k\n2"
Defs == { <<103, 10, 50, 46, 49, 46, 49, 10, 115, 32, 32, 116>>,
          <<104, 255, 10, 49, 50, 10, 115>>,
          <<107, 10, 50>> }

\* "bookname = D\r\nversion=1\nauthor=A", "x=1"
Ifos == { <<98, 111, 111, 107, 110, 97, 109, 101, 32, 61, 32, 68, 13, 10,
            118, 101, 114, 115, 105, 111, 110, 61, 49, 10,
            97, 117, 116, 104, 111, 114, 61, 65>>,
          <<120, 61, 49>> }

Kinds == {"ifo", "idx", "dict", "syn"}

IdxWords == << <<97>>, <<98>>, <<99>> >>

SynWords == << <<115>>, <<97>> >>

RECURSIVE Concat(_)
Concat(ss) == IF ss = <<>> THEN <<>> ELSE Head(ss) \o Concat(Tail(ss))

\* The (offset, size) of each definition of a blob, and one range that
\* runs one byte past the end of the blob.
Ranges(defs) ==
    {<<Len(Concat(SubSeq(defs, 1, i - 1))), Len(defs[i])>> : i \in 1..Len(defs)}
    \cup (IF defs = <<>> THEN {}
          ELSE {<<Len(Concat(SubSeq(defs, 1, Len(defs) - 1))),
                  Len(defs[Len(defs)]) + 1>>})

\* A range no definition has.
NoRange == <<99, 4>>

\* The ranges of the synonym records: that of the blob's first definition,
\* and the range no definition has.
SynRanges(defs) ==
    (IF defs = <<>> THEN {} ELSE {<<0, Len(defs[1])>>}) \cup {NoRange}

RecordList(words, ranges) ==
    [i \in 1..Len(ranges) |->
        [word |-> words[i], offset |-> ranges[i][1], size |-> ranges[i][2]]]

\* A file the folder lacks has no bytes.
Init ==
    /\ listing \in SUBSET Kinds
    /\ ifo_file \in (IF "ifo" \in listing THEN Ifos ELSE {<<>>})
    /\ \E defs \in UNION {[1..n -> Defs] : n \in 0..MaxDefs} :
         /\ dict_file = IF "dict" \in listing THEN Concat(defs) ELSE <<>>
         /\ \E rs \in UNION {[1..n -> Ranges(defs)] : n \in 0..MaxWords} :
               idx_file = IF "idx" \in listing
                          THEN EncodeRecords(RecordList(IdxWords, rs)) ELSE <<>>
         /\ IF "syn" \in listing
            THEN \E rs \in UNION {[1..n -> SynRanges(defs)] : n \in 0..MaxSyn} :
                   syn_file = [exists |-> TRUE,
                               data |-> EncodeRecords(RecordList(SynWords, rs))]
            ELSE syn_file = [exists |-> FALSE, data |-> <<>>]
    /\ metadata = <<>>
    /\ idx = Unset /\ dict_data = <<>> /\ syn_map = <<>>
    /\ json_entries = <<>> /\ i_main = 0 /\ i_syn = 0
    /\ main_word = NoMainWord
    /\ sorted_entries = <<>> /\ out_file = NotWritten
    /\ err = NoError /\ pc = "find"
    /\ run = 1 /\ first_doc = <<>>
    /\ KeyIdle /\ ReadersIdle /\ AuxIdle

Abort(exc, step, at) ==
    /\ pc' = "aborted"
    /\ err' = [exc |-> exc, step |-> step, at |-> at]

\* The loop over os.listdir and the test that follows it.
FindFiles_open_first ==
    /\ pc = "find"
    /\ out_file' = [written |-> TRUE, doc |-> <<>>]
    /\ IF missing_required(listing)
       THEN Abort("Exception", "find", 0)
       ELSE pc' = "read_ifo" /\ UNCHANGED err
    /\ UNCHANGED <<inVars, metadata, idx, dict_data, syn_map, json_entries, i_main,
                   i_syn, sorted_entries, rerunVars, main_word, keyVars, rdVars, auxVars>>

FindFiles ==
    /\ pc = "find"
    /\ IF missing_required(listing)
       THEN Abort("Exception", "find", 0)
       ELSE pc' = "read_ifo" /\ UNCHANGED err
    /\ UNCHANGED <<inVars, metadata, idx, dict_data, syn_map, json_entries, i_main,
                   i_syn, sorted_entries, out_file, rerunVars, main_word, keyVars, rdVars, auxVars>>

\* metadata = read_ifo(ifo_file); open(None) is a TypeError.
ReadIfoFile ==
    /\ pc = "read_ifo"
    /\ LET r == read_ifo(ifo_file)
       IN  IF "ifo" \notin listing
           THEN Abort("TypeError", "read_ifo", 0) /\ UNCHANGED metadata
           ELSE IF r.tag = "raise"
           THEN Abort(r.exc, "read_ifo", 0) /\ UNCHANGED metadata
           ELSE metadata' = r.val /\ pc' = "read_idx" /\ UNCHANGED err
    /\ UNCHANGED <<inVars, idx, dict_data, syn_map, json_entries, i_main, i_syn,
                   sorted_entries, out_file, rerunVars, main_word, keyVars, rdVars, auxVars>>

\* idx = read_idx(idx_file); open(None) is a TypeError.
ReadIdxFile ==
    /\ pc = "read_idx"
    /\ LET r == read_idx(idx_file)
       IN  IF "idx" \notin listing
           THEN Abort("TypeError", "read_idx", 0) /\ UNCHANGED idx
           ELSE IF r.tag = "raise"
           THEN Abort(r.exc, "read_idx", 0) /\ UNCHANGED idx
           ELSE idx' = r /\ pc' = "read_dict" /\ UNCHANGED err
    /\ UNCHANGED <<inVars, dict_data, syn_map, json_entries, i_main, i_syn,
                   sorted_entries, out_file, metadata, rerunVars, main_word, keyVars, rdVars, auxVars>>

\* dict_data = read_dict(dict_file); None.endswith is an AttributeError.
ReadDictFile ==
    /\ pc = "read_dict"
    /\ IF "dict" \notin listing
       THEN Abort("AttributeError", "read_dict", 0) /\ UNCHANGED dict_data
       ELSE dict_data' = dict_file /\ pc' = "read_syn" /\ UNCHANGED err
    /\ UNCHANGED <<inVars, idx, syn_map, json_entries, i_main, i_syn,
                   sorted_entries, out_file, metadata, rerunVars, main_word, keyVars, rdVars, auxVars>>

\* What follows the reads and each loop: a for loop over nothing is skipped.
AfterMain_no_syn(n_idx, n_syn, i) == IF i < n_idx THEN "main" ELSE "sort"

AfterMain(n_idx, n_syn, i) ==
    IF i < n_idx THEN "main" ELSE IF n_syn > 0 THEN "syn" ELSE "sort"

AfterSyn(n_syn, j) == IF j < n_syn THEN "syn" ELSE "sort"

\* syn_map = read_syn(syn_file); then idx.items() is taken, which None lacks.
ReadSynFile ==
    /\ pc = "read_syn"
    /\ LET r == read_syn(syn_file)
       IN  IF r.tag = "raise"
           THEN Abort(r.exc, "read_syn", 0) /\ UNCHANGED syn_map
           ELSE IF idx.tag = "none"
           THEN Abort("AttributeError", "main", 0) /\ syn_map' = r.val
           ELSE /\ syn_map' = r.val
                /\ pc' = AfterMain(Len(idx.val), Len(r.val), 0)
                /\ UNCHANGED err
    /\ UNCHANGED <<inVars, idx, dict_data, json_entries, i_main, i_syn,
                   sorted_entries, out_file, metadata, rerunVars, main_word, keyVars, rdVars, auxVars>>

\* One turn of "for word, (offset, size) in idx.items()".
MainWord ==
    /\ pc = "main"
    /\ LET rec == idx.val[i_main + 1]
           e == main_entry(dict_data, rec)
       IN  IF e.ok
           THEN /\ json_entries' = EntrySet(json_entries, rec.key, e.val)
                /\ pc' = AfterMain(Len(idx.val), Len(syn_map), i_main + 1)
                /\ UNCHANGED err
           ELSE Abort(e.exc, "main", i_main + 1) /\ UNCHANGED json_entries
    /\ i_main' = i_main + 1
    /\ UNCHANGED <<inVars, idx, dict_data, syn_map, i_syn,
                   sorted_entries, out_file, metadata, rerunVars, main_word, keyVars, rdVars, auxVars>>

\* One turn of "for syn_word, (offset, size) in syn_map.items()".  An empty
\* main word is falsy, like None.
AddSynonym ==
    /\ pc = "syn"
    /\ LET rec == syn_map[i_syn + 1]
           m == main_word_of(idx.val, rec.offset, rec.size)
       IN  IF m.found /\ m.word # <<>>
           THEN IF HasField(EntryOf(json_entries, m.word), "meaning")
                THEN /\ json_entries' =
                          EntrySet(json_entries, rec.key,
                                   [meaning |-> EntryOf(json_entries, m.word).meaning,
                                    synonyms |-> <<m.word>>])
                     /\ pc' = AfterSyn(Len(syn_map), i_syn + 1)
                     /\ UNCHANGED err
                ELSE Abort("KeyError", "syn", i_syn + 1) /\ UNCHANGED json_entries
           ELSE /\ pc' = AfterSyn(Len(syn_map), i_syn + 1)
                /\ UNCHANGED <<json_entries, err>>
    /\ i_syn' = i_syn + 1
    /\ main_word' = main_word_of(idx.val, syn_map[i_syn + 1].offset, syn_map[i_syn + 1].size)
    /\ UNCHANGED <<inVars, idx, dict_data, syn_map, i_main, sorted_entries, out_file,
                   metadata, rerunVars, keyVars, rdVars, auxVars>>

\* sorted_entries = sorted(json_entries.items(), key=...)
SortEntries ==
    /\ pc = "sort"
    /\ IF \E i \in 1..Len(json_entries) : ~HasField(json_entries[i].val, "text_number")
       THEN Abort("KeyError", "sort", 0) /\ UNCHANGED sorted_entries
       ELSE /\ sorted_entries' = py_sorted(json_entries)
            /\ pc' = "write"
            /\ UNCHANGED err
    /\ UNCHANGED <<inVars, idx, dict_data, syn_map, json_entries, i_main, i_syn,
                   out_file, metadata, rerunVars, main_word, keyVars, rdVars, auxVars>>

\* final_json is built and dumped to OUTPUT_JSON, opened with "w": what the
\* file held is gone.
WriteOutput_append ==
    /\ pc = "write"
    /\ out_file' = [written |-> TRUE,
                    doc |-> IF out_file.written
                            THEN [out_file.doc EXCEPT !.entries = @ \o sorted_entries]
                            ELSE final_json(metadata, sorted_entries)]
    /\ pc' = "done"
    /\ UNCHANGED <<inVars, idx, dict_data, syn_map, json_entries, i_main, i_syn,
                   sorted_entries, err, metadata, rerunVars, main_word, keyVars, rdVars, auxVars>>

WriteOutput ==
    /\ pc = "write"
    /\ out_file' = [written |-> TRUE, doc |-> final_json(metadata, sorted_entries)]
    /\ pc' = "done"
    /\ UNCHANGED <<inVars, idx, dict_data, syn_map, json_entries, i_main, i_syn,
                   sorted_entries, err, metadata, rerunVars, main_word, keyVars, rdVars, auxVars>>

Next ==
    \/ FindFiles
    \/ ReadIfoFile
    \/ ReadIdxFile
    \/ ReadDictFile
    \/ ReadSynFile
    \/ MainWord
    \/ AddSynonym
    \/ SortEntries
    \/ WriteOutput

Spec == Init /\ [][Next]_vars

(***************************************************************************)
(* Specification SpecRerun: the script is run a second time on the same    *)
(* folder.  A new process starts with nothing but the files: the inputs    *)
(* as they were, and the output file the first run left.                   *)
(***************************************************************************)
Rerun ==
    /\ pc = "done"
    /\ run = 1
    /\ run' = 2
    /\ first_doc' = out_file.doc
    /\ metadata' = <<>>
    /\ idx' = Unset /\ dict_data' = <<>> /\ syn_map' = <<>>
    /\ json_entries' = <<>> /\ i_main' = 0 /\ i_syn' = 0
    /\ sorted_entries' = <<>>
    /\ err' = NoError /\ pc' = "find"
    /\ main_word' = NoMainWord
    /\ UNCHANGED <<inVars, out_file, keyVars, rdVars, auxVars>>

NextRerun == Next \/ Rerun

SpecRerun == Init /\ [][NextRerun]_vars

(***************************************************************************)
(* Specification SpecIfo: read_ifo applied to a descriptor file of at most *)
(* MaxLines lines, each ended by a line feed.  A line is any text of at    *)
(* most MaxLineLen characters over IfoChars, or one of two longer lines.   *)
(***************************************************************************)
MaxLines == 2
MaxLineLen == 2

\* "a", "=", " "
IfoChars == {97, EQ, SP}

\* " a = a ", "a=a=a"
LongLines == { <<32, 97, 32, 61, 32, 97, 32>>, <<97, 61, 97, 61, 97>> }

IfoLines == UNION {[1..n -> IfoChars] : n \in 0..MaxLineLen} \cup LongLines

\* The bytes of the file: the lines hold ASCII only.
IfoBytes(lines) == Concat([i \in 1..Len(lines) |-> lines[i] \o <<NL>>])

InitIfo ==
    /\ ifo_lines \in UNION {[1..n -> IfoLines] : n \in 0..MaxLines}
    /\ ifo_out = [tag |-> "idle"]
    /\ ifo_pc = "call"
    /\ KeyIdle /\ ReadersIdle /\ RunIdle /\ YamlIdle

CallReadIfo ==
    /\ ifo_pc = "call"
    /\ ifo_out' = read_ifo(IfoBytes(ifo_lines))
    /\ ifo_pc' = "ret"
    /\ UNCHANGED <<ifo_lines, keyVars, rdVars, runVars, yamlVars>>

NextIfo == CallReadIfo

SpecIfo == InitIfo /\ [][NextIfo]_vars

(***************************************************************************)
(* Specification SpecSplit: Scripts/AI_Generated/scripts/                  *)
(* splitYamlForProofreading.py splits one mapping file into part files,    *)
(* and scripts/verifySplitIntegrity.py compares the parts with it.         *)
(*                                                                         *)
(* A file is what ForceStringLoader loads from it: a mapping is a sequence *)
(* of [key, val] in file order, the i-th key of a list being the number i. *)
(* A value is a mapping (dict) with its 'resolved' and 'comment' fields    *)
(* and the rest of its fields (body), or something that is not a mapping.  *)
(***************************************************************************)
MaxEntries == 3
MaxParts == 3

Scalar == [dict |-> FALSE, resolved |-> "absent", comment |-> "absent", body |-> 1]

DictVal(r, c, b) == [dict |-> TRUE, resolved |-> r, comment |-> c, body |-> b]

\* The values of an input file: lists generated without review fields, and
\* one that was reviewed before.
OrigVals ==
    {Scalar, DictVal("absent", "absent", 1), DictVal("absent", "absent", 2),
     DictVal("str_true", "text", 1)}

Originals ==
    UNION {{[i \in 1..n |-> [key |-> i, val |-> vs[i]]] : vs \in [1..n -> OrigVals]}
           : n \in 0..MaxEntries}

\* A part file an earlier split of a longer list left in the folder: the
\* folder is made with exist_ok and nothing in it is removed.
StalePart ==
    [exists |-> TRUE,
     header |-> [entry_count |-> "{entry_count}", part_num |-> MaxParts],
     data |-> <<[key |-> 0, val |-> DictVal("str_false", "empty", 1)]>>]

Folders ==
    {[p \in 1..MaxParts |-> NoFile],
     [p \in 1..MaxParts |-> IF p = MaxParts THEN StalePart ELSE NoFile]}

\* math.ceil(total_items / num_chunks)
chunk_size_of(total_items, num_chunks) == (total_items + num_chunks - 1) \div num_chunks

\* value['resolved'] = 'false'; value['comment'] = '' on a dict value.
with_review_fields(item) ==
    IF item.val.dict
    THEN [item EXCEPT !.val.resolved = "str_false", !.val.comment = "empty"]
    ELSE item

\* items[start_idx:end_idx] of chunk i, counted from 0.
chunk_items(items, i, chunk_size) ==
    LET start_idx == i * chunk_size
        end_idx == Min(start_idx + chunk_size, Len(items))
    IN  IF start_idx >= end_idx THEN <<>>
        ELSE [k \in 1..(end_idx - start_idx) |-> items[start_idx + k]]

RECURSIVE chunks_from(_, _, _, _)
chunks_from(items, num_chunks, chunk_size, i) ==
    IF i >= num_chunks THEN <<>>
    ELSE LET c == chunk_items(items, i, chunk_size)
             rest == chunks_from(items, num_chunks, chunk_size, i + 1)
         IN  IF c # <<>>
             THEN <<[k \in 1..Len(c) |-> with_review_fields(c[k])]>> \o rest
             ELSE rest

split_dict_into_chunks(data_dict, num_chunks) ==
    chunks_from(data_dict, num_chunks, chunk_size_of(Len(data_dict), num_chunks), 0)

\* "ENTRIES TO CORRECT: {{entry_count}}" is not an f-string, so format()
\* leaves the text {entry_count} in the header.
part_file(chunk, i) ==
    [exists |-> TRUE,
     header |-> [entry_count |-> "{entry_count}", part_num |-> i],
     data |-> chunk]

\* split_yaml_file: nothing is written for an empty file.
SplitYamlFile ==
    /\ sp_pc = "split"
    /\ LET chunks == split_dict_into_chunks(sp_original, sp_num_parts)
       IN  IF sp_original = <<>>
           THEN sp_folder' = sp_folder
           ELSE sp_folder' = [p \in DOMAIN sp_folder |->
                                 IF p <= Len(chunks) THEN part_file(chunks[p], p)
                                 ELSE sp_folder[p]]
    /\ sp_pc' = "verify"
    /\ UNCHANGED <<sp_original, sp_num_parts, sp_valid, keyVars, rdVars, runVars, ifoVars,
                   removeVars, backportVars>>

\* combined_data.update(part_data) over the part files in name order.
RECURSIVE combined_from(_, _, _)
combined_from(folder, p, acc) ==
    IF p > Len(folder) THEN acc
    ELSE IF ~folder[p].exists THEN combined_from(folder, p + 1, acc)
    ELSE LET d == folder[p].data
             RECURSIVE upd(_, _)
             upd(a, k) == IF k > Len(d) THEN a
                          ELSE upd(EntrySet(a, d[k].key, d[k].val), k + 1)
         IN  combined_from(folder, p + 1, upd(acc, 1))

KeysOf(d) == {d[i].key : i \in 1..Len(d)}

\* verify_split: the empty file loads as None, which has no keys().
verify_split(original_data, folder) ==
    IF original_data = <<>> THEN [tag |-> "raise", exc |-> "AttributeError"]
    ELSE LET combined_data == combined_from(folder, 1, <<>>)
             missing_keys == KeysOf(original_data) \ KeysOf(combined_data)
             extra_keys == KeysOf(combined_data) \ KeysOf(original_data)
             counts_ok == /\ Len(original_data) = Len(combined_data)
                          /\ missing_keys = {}
                          /\ extra_keys = {}
         IN  [tag |-> "ok",
              is_valid |-> /\ counts_ok
                           /\ \A k \in KeysOf(original_data) :
                                 EntryOf(original_data, k) = EntryOf(combined_data, k)]

VerifySplit ==
    /\ sp_pc = "verify"
    /\ sp_valid' = verify_split(sp_original, sp_folder)
    /\ sp_pc' = "ret"
    /\ UNCHANGED <<sp_original, sp_num_parts, sp_folder, keyVars, rdVars, runVars, ifoVars,
                   removeVars, backportVars>>

InitSplit ==
    /\ sp_original \in Originals
    /\ sp_num_parts \in 1..MaxParts
    /\ sp_folder \in Folders
    /\ sp_valid = [tag |-> "idle"]
    /\ sp_pc = "split"
    /\ KeyIdle /\ ReadersIdle /\ RunIdle /\ IfoIdle /\ RemoveIdle /\ BackportIdle

NextSplit == SplitYamlFile \/ VerifySplit

SpecSplit == InitSplit /\ [][NextSplit]_vars

(***************************************************************************)
(* Specification SpecRemove: remove_resolved_from_folder of                *)
(* Scripts/AI_Generated/scripts/proofreading/removeResolvedEntries.py      *)
(* passes over the part files of a folder, with or without --dry-run, and  *)
(* the script is then run once more without it.                            *)
(*                                                                         *)
(* A part file is its header comment lines and the mapping loaded from it; *)
(* a header line is the 'ENTRIES TO CORRECT:' line with what follows the   *)
(* colon, or another comment.                                              *)
(***************************************************************************)
MaxPartEntries == 2
MaxFiles == 2

TextLine == [count |-> FALSE, filled |-> FALSE, n |-> 0]

CountLine(n) == [count |-> TRUE, filled |-> TRUE, n |-> n]

\* The line as the split writes it: "# ENTRIES TO CORRECT: {entry_count}".
UnfilledLine == [count |-> TRUE, filled |-> FALSE, n |-> 0]

\* The header the split writes, and a header whose count was updated.
Headers == { <<TextLine, UnfilledLine, TextLine>>, <<CountLine(MaxPartEntries)>> }

PartVals ==
    {Scalar, DictVal("absent", "absent", 1), DictVal("str_false", "empty", 1),
     DictVal("str_true", "text", 1), DictVal("bool_true", "empty", 2)}

PartDatas ==
    UNION {{[i \in 1..n |-> [key |-> i, val |-> vs[i]]] : vs \in [1..n -> PartVals]}
           : n \in 0..MaxPartEntries}

\* The first part file is any file; the others are a file with a resolved
\* entry and a file without.
OtherParts ==
    { [header_lines |-> <<UnfilledLine>>,
       data |-> <<[key |-> 1, val |-> DictVal("str_true", "text", 1)],
                  [key |-> 2, val |-> DictVal("str_false", "empty", 2)]>>],
      [header_lines |-> <<>>,
       data |-> <<[key |-> 1, val |-> DictVal("str_false", "empty", 1)]>>] }

PartFolders ==
    {<<[header_lines |-> h, data |-> d]>> \o rest :
        h \in Headers, d \in PartDatas,
        rest \in UNION {[1..n -> OtherParts] : n \in 0..(MaxFiles - 1)}}

\* resolved_value == 'true' or resolved_value == True, of
\* entry.get('resolved', 'false')
is_resolved(entry) == entry.resolved \in {"str_true", "bool_true"}

\* unresolved_data: the dict entries that are not resolved, in file order.
unresolved_of(data) ==
    SelectSeq(data, LAMBDA e : e.val.dict /\ ~is_resolved(e.val))

\* resolved_entries: the keys of the dict entries that are resolved.
resolved_of(data) ==
    SelectSeq(data, LAMBDA e : e.val.dict /\ is_resolved(e.val))

update_header_entry_count(header_lines, new_count) ==
    [k \in 1..Len(header_lines) |->
        IF header_lines[k].count THEN CountLine(new_count) ELSE header_lines[k]]

\* if removed_count > 0: ... if not dry_run: the file is written.
file_is_written_dry(removed_count, dry) == removed_count > 0

file_is_written(removed_count, dry) == removed_count > 0 /\ ~dry

\* One turn of "for part_file in part_files".
RemovePart ==
    /\ rm_pc = "pass"
    /\ LET part == rm_folder[rm_i + 1]
           original_count == Len(part.data)
           unresolved_data == unresolved_of(part.data)
           removed_count == Len(resolved_of(part.data))
           new_count == Len(unresolved_data)
       IN  /\ rm_totals' =
                 [total_before |-> rm_totals.total_before + original_count,
                  total_after |-> rm_totals.total_after + new_count,
                  total_removed |-> rm_totals.total_removed + removed_count]
           /\ IF file_is_written(removed_count, dry_run)
              THEN rm_folder' =
                     [rm_folder EXCEPT ![rm_i + 1] =
                        [header_lines |->
                            update_header_entry_count(part.header_lines, new_count),
                         data |-> unresolved_data]]
              ELSE rm_folder' = rm_folder
    /\ rm_i' = rm_i + 1
    /\ rm_pc' = IF rm_i + 1 < Len(rm_folder) THEN "pass" ELSE "done"
    /\ UNCHANGED <<rm_start, dry_run, rm_pass, rm_first, keyVars, rdVars, runVars,
                   ifoVars, splitVars, backportVars>>

\* The script is run again, without --dry-run, on the folder as it is.
RunAgain ==
    /\ rm_pc = "done"
    /\ rm_pass = 1
    /\ rm_pass' = 2
    /\ rm_first' = [dry_run |-> dry_run, totals |-> rm_totals]
    /\ dry_run' = FALSE
    /\ rm_start' = rm_folder
    /\ rm_i' = 0
    /\ rm_totals' = NoTotals
    /\ rm_pc' = "pass"
    /\ UNCHANGED <<rm_folder, keyVars, rdVars, runVars, ifoVars, splitVars, backportVars>>

InitRemove ==
    /\ rm_folder \in PartFolders
    /\ rm_start = rm_folder
    /\ dry_run \in BOOLEAN
    /\ rm_i = 0
    /\ rm_totals = NoTotals
    /\ rm_pass = 1
    /\ rm_first = NoPass
    /\ rm_pc = "pass"
    /\ KeyIdle /\ ReadersIdle /\ RunIdle /\ IfoIdle /\ SplitIdle /\ BackportIdle

NextRemove == RemovePart \/ RunAgain

SpecRemove == InitRemove /\ [][NextRemove]_vars

(***************************************************************************)
(* Specification SpecBackport: backport_changes of                         *)
(* Scripts/AI_Generated/scripts/backport/backportMultipleDhatuIds.py       *)
(* carries the edited entries of one file into a source-of-truth file.     *)
(*                                                                         *)
(* The source-of-truth file is the mapping loaded from it: shloka key ->   *)
(* artha -> verb form -> list, or a value that is not a mapping at any of  *)
(* the levels.  Shloka text and gati are text, a sequence of code points;  *)
(* the file is loaded and dumped whole at every update.                    *)
(***************************************************************************)
MaxShlokas == 2
MaxEdits == 2

NotDict == [dict |-> FALSE, items |-> <<>>]

Dict(items) == [dict |-> TRUE, items |-> items]

OldValue == << <<48>> >>

\* Shloka keys: "ab", "b " and then "c" with a letter.
ShlokaKey(i) ==
    IF i = 1 THEN <<97, 98>> ELSE IF i = 2 THEN <<98, SP>> ELSE <<99, 96 + i>>

ShlokaVals ==
    { NotDict,
      Dict(<<>>),
      Dict(<<[key |-> "x", val |-> NotDict]>>),
      Dict(<<[key |-> "x", val |-> Dict(<<[key |-> "g", val |-> OldValue]>>)]>>),
      Dict(<<[key |-> "x", val |-> Dict(<<[key |-> "f", val |-> OldValue],
                                          [key |-> "g", val |-> OldValue]>>)],
             [key |-> "y", val |-> Dict(<<[key |-> "f", val |-> OldValue]>>)]>>) }

YamlDatas ==
    UNION {{[i \in 1..n |-> [key |-> ShlokaKey(i), val |-> vs[i]]] : vs \in [1..n -> ShlokaVals]}
           : n \in 0..MaxShlokas}

\* shloka_text of an edited entry: "b", " ab ", "z", "abc".
ShlokaTexts == { <<98>>, <<SP, 97, 98, SP>>, <<122>>, <<97, 98, 99>> }

\* gati: absent or empty, blank, and "g ".
Gatis == { <<>>, <<SP>>, <<103, SP>> }

\* The first edited entry of the file is any entry; kanda says whether
\* find_yaml_file finds the file.
FirstEdits ==
    [form : {"f", "g"}, dhatu_ids : {<<49>>}, gati : Gatis, kanda : {"known"},
     artha : {"x", "y"}, shloka_text : ShlokaTexts,
     resolved : {"str_false", "str_true"}, comment : {"empty", "text"}]

OtherEdits ==
    { [form |-> "f", dhatu_ids |-> <<50>>, gati |-> <<>>, kanda |-> "known",
       artha |-> "x", shloka_text |-> <<98>>, resolved |-> "str_true", comment |-> "text"],
      [form |-> "f", dhatu_ids |-> <<50>>, gati |-> <<>>, kanda |-> "unknown",
       artha |-> "x", shloka_text |-> <<98>>, resolved |-> "str_false", comment |-> "empty"] }

Changes ==
    {<<e>> \o rest :
        e \in FirstEdits,
        rest \in UNION {[1..n -> OtherEdits] : n \in 0..(MaxEdits - 1)}}

\* a in b, of two strings
is_in(a, b) ==
    \E i \in 0..(Len(b) - Len(a)) : \A k \in 1..Len(a) : b[i + k] = a[k]

\* shloka_text.strip() in shloka_key or shloka_key.strip() in shloka_text
shloka_matches(shloka_text, shloka_key) ==
    is_in(strip(shloka_text), shloka_key) \/ is_in(strip(shloka_key), shloka_text)

\* [gati, new_dhatu_ids] if gati and gati.strip() else [new_dhatu_ids]
new_value_stripped(new_dhatu_ids, gati) ==
    IF gati # <<>> /\ strip(gati) # <<>> THEN <<strip(gati), new_dhatu_ids>>
    ELSE <<new_dhatu_ids>>

new_value(new_dhatu_ids, gati) ==
    IF gati # <<>> /\ strip(gati) # <<>> THEN <<gati, new_dhatu_ids>>
    ELSE <<new_dhatu_ids>>

\* yaml_data[shloka_key][artha][form] = value
set_form(yaml_data, k, artha, form, value) ==
    LET shloka_data == yaml_data[k].val
        artha_data == EntryOf(shloka_data.items, artha)
    IN  [yaml_data EXCEPT ![k].val =
            Dict(EntrySet(shloka_data.items, artha,
                          Dict(EntrySet(artha_data.items, form, value))))]

\* The loop of update_verb_in_yaml from the k-th shloka key on.
RECURSIVE update_from(_, _, _, _, _, _, _)
update_from(yaml_data, k, shloka_text, artha, form, new_dhatu_ids, gati) ==
    IF k > Len(yaml_data) THEN [updated |-> FALSE, data |-> yaml_data]
    ELSE LET shloka_data == yaml_data[k].val
             next == update_from(yaml_data, k + 1, shloka_text, artha, form,
                                 new_dhatu_ids, gati)
         IN  IF ~shloka_matches(shloka_text, yaml_data[k].key) THEN next
             ELSE IF ~shloka_data.dict \/ shloka_data.items = <<>> THEN next
             ELSE IF artha \notin KeysOf(shloka_data.items) THEN next
             ELSE IF ~EntryOf(shloka_data.items, artha).dict THEN next
             ELSE IF form \notin KeysOf(EntryOf(shloka_data.items, artha).items) THEN next
             ELSE [updated |-> TRUE,
                   data |-> set_form(yaml_data, k, artha, form,
                                     new_value(new_dhatu_ids, gati))]

update_verb_in_yaml(yaml_data, shloka_text, artha, form, new_dhatu_ids, gati) ==
    update_from(yaml_data, 1, shloka_text, artha, form, new_dhatu_ids, gati)

\* find_yaml_file: None for a kanda that is not in kanda_map.
find_yaml_file(kanda) == kanda = "known"

\* One turn of "for key, entry_data in changes_data.items()".
BackportEntry ==
    /\ bp_pc = "loop"
    /\ LET entry_data == bp_changes[bp_i + 1]
           r == update_verb_in_yaml(bp_data, entry_data.shloka_text, entry_data.artha,
                                    entry_data.form, entry_data.dhatu_ids,
                                    entry_data.gati)
       IN  IF ~find_yaml_file(entry_data.kanda)
           THEN /\ bp_ret' = "no_file"
                /\ bp_counts' = [bp_counts EXCEPT !.not_found_count = @ + 1]
                /\ bp_data' = bp_data
           ELSE IF r.updated
           THEN /\ bp_ret' = "updated"
                /\ bp_counts' = [bp_counts EXCEPT !.updated_count = @ + 1]
                /\ bp_data' = r.data
           ELSE /\ bp_ret' = "not_found"
                /\ bp_counts' = [bp_counts EXCEPT !.not_found_count = @ + 1]
                /\ bp_data' = bp_data
    /\ bp_before' = bp_data
    /\ bp_i' = bp_i + 1
    /\ bp_pc' = IF bp_i + 1 < Len(bp_changes) THEN "loop" ELSE "done"
    /\ UNCHANGED <<bp_changes, keyVars, rdVars, runVars, ifoVars, splitVars, removeVars>>

InitBackport ==
    /\ bp_changes \in Changes
    /\ bp_data \in YamlDatas
    /\ bp_before = bp_data
    /\ bp_ret = "idle"
    /\ bp_i = 0
    /\ bp_counts = NoCounts
    /\ bp_pc = "loop"
    /\ KeyIdle /\ ReadersIdle /\ RunIdle /\ IfoIdle /\ SplitIdle /\ RemoveIdle

NextBackport == BackportEntry

SpecBackport == InitBackport /\ [][NextBackport]_vars

(***************************************************************************)
(* What the claims about a run speak of.                                   *)
(***************************************************************************)
FailedAt(step, at) == pc = "aborted" /\ err.step = step /\ err.at = at

InBounds(rec) == rec.offset + rec.size <= Len(dict_data)

\* The text of a record whose range lies in the blob.
DefText(rec) == decode_meaning(SubSeq(dict_data, rec.offset + 1, rec.offset + rec.size))

\* The main words whose (offset, size) a synonym record has.
SharingWords(rec) ==
    {idx.val[i].key : i \in {i \in 1..Len(idx.val) :
        idx.val[i].offset = rec.offset /\ idx.val[i].size = rec.size}}

IsAlias(val) == ~HasField(val, "artha")

\* The non-empty tokens of a line, any run of whitespace being one separator.
WsTokens(line) ==
    LET starts == {a \in 1..Len(line) :
                     ~IsSpace(line[a]) /\ (a = 1 \/ IsSpace(line[a - 1]))}
        nth(j) == CHOOSE a \in starts : Cardinality({q \in starts : q < a}) = j - 1
        stop(a) == CHOOSE b \in a..Len(line) :
                     /\ \A i \in a..b : ~IsSpace(line[i])
                     /\ (b = Len(line) \/ IsSpace(line[b + 1]))
    IN  [j \in 1..Cardinality(starts) |-> SubSeq(line, nth(j), stop(nth(j)))]

\* a <= b for keys, component by component; a proper prefix comes first.
KeyLeq(a, b) ==
    \/ a = b
    \/ Len(a) < Len(b) /\ \A m \in 1..Len(a) : a[m] = b[m]
    \/ \E k \in 1..Min(Len(a), Len(b)) :
          a[k] < b[k] /\ \A m \in 1..(k - 1) : a[m] = b[m]

OutEntries == out_file.doc.entries

Locator(item) == item.val.text_number

\* The place of a headword in the order entries were produced.
ProducedAt(key) == CHOOSE i \in 1..Len(json_entries) : json_entries[i].key = key

\* C1: the slice of a main-index record with offset + size beyond the blob
\* fails with a distinct out-of-bounds failure and builds no entry.
C1_OutOfBoundsFails ==
    \A i \in 1..i_main :
        ~InBounds(idx.val[i]) =>
            /\ FailedAt("main", i)
            /\ err.exc = "OutOfBounds"

\* C3: a synonym record with the (offset, size) of a main word m does not
\* end the run, and the output holds an entry for it that names m and
\* carries the gloss of m's entry.
C3_ResolvedSynonymAliased ==
    \A j \in 1..i_syn :
        SharingWords(syn_map[j]) # {} =>
            /\ ~FailedAt("syn", j)
            /\ pc = "done" =>
                 \E k \in 1..Len(OutEntries) : \E m \in SharingWords(syn_map[j]) :
                    /\ OutEntries[k].key = syn_map[j].key
                    /\ OutEntries[k].val.synonyms = <<m>>
                    /\ HasField(OutEntries[k].val, "meaning")
                    /\ \E n \in 1..Len(OutEntries) :
                          /\ OutEntries[n].key = m
                          /\ HasField(OutEntries[n].val, "artha")
                          /\ OutEntries[n].val.artha = OutEntries[k].val.meaning

\* C4: a synonym record with the (offset, size) of no main word creates no
\* entry, in the entry set or in the output, and does not end the run.
C4_UnresolvedSynonymDropped ==
    \A j \in 1..i_syn :
        SharingWords(syn_map[j]) = {} =>
            /\ ~FailedAt("syn", j)
            /\ \A k \in 1..Len(json_entries) :
                  json_entries[k].key = syn_map[j].key => ~IsAlias(json_entries[k].val)
            /\ pc = "done" =>
                 \A k \in 1..Len(OutEntries) :
                    OutEntries[k].key = syn_map[j].key => ~IsAlias(OutEntries[k].val)

\* C4's case: a run that took an unresolvable synonym record, beside a
\* main word, and went on to write its output.
C4_Witness ==
    /\ pc = "done"
    /\ Len(idx.val) > 0
    /\ \E j \in 1..i_syn : SharingWords(syn_map[j]) = {}

\* C5: the entry of a main word whose definition has three lines has the
\* first line as gloss, the second as locator and the whitespace-separated
\* non-empty tokens of the third as synonym list.
C5_ThreeLineFields ==
    \A i \in 1..i_main :
        LET rec == idx.val[i]
        IN  (InBounds(rec) /\ NumFields(DefText(rec), NL) = 3 /\ ~FailedAt("main", i)) =>
                LET e == EntryOf(json_entries, rec.key)
                IN  /\ e.artha = Field(DefText(rec), NL, 1)
                    /\ e.text_number = Field(DefText(rec), NL, 2)
                    /\ e.synonyms = WsTokens(Field(DefText(rec), NL, 3))

\* C6: a main word whose definition has fewer than three lines still gets
\* its entry, the missing trailing fields being empty.
C6_MissingFieldsEmpty ==
    \A i \in 1..i_main :
        LET rec == idx.val[i]
            n == NumFields(DefText(rec), NL)
        IN  (InBounds(rec) /\ n < 3) =>
                /\ ~FailedAt("main", i)
                /\ LET e == EntryOf(json_entries, rec.key)
                   IN  /\ e.artha = Field(DefText(rec), NL, 1)
                       /\ e.text_number = IF n >= 2 THEN Field(DefText(rec), NL, 2) ELSE <<>>
                       /\ e.synonyms = <<>>

\* C9: the entries of an output document are in ascending order of
\* version_key(locator), compared component by component as numbers.
C9_OutputAscending ==
    pc = "done" =>
        \A i \in 1..Len(OutEntries) : \A j \in (i + 1)..Len(OutEntries) :
            KeyLeq(version_key(Locator(OutEntries[i])), version_key(Locator(OutEntries[j])))

\* C9's case: an output whose entries were produced out of key order.
C9_Witness ==
    /\ pc = "done"
    /\ \E i \in 1..Len(json_entries) : \E j \in (i + 1)..Len(json_entries) :
          /\ ~KeyLeq(version_key(Locator(json_entries[i])),
                     version_key(Locator(json_entries[j])))
          /\ OutEntries[1] = json_entries[j]

\* C10: output entries with equal sort keys stand in the order in which
\* they were produced, which for main entries is the order of the index.
C10_TiesKeepProductionOrder ==
    pc = "done" =>
        /\ [i \in 1..Len(json_entries) |-> json_entries[i].key]
             = [i \in 1..Len(idx.val) |-> idx.val[i].key]
        /\ \A i \in 1..Len(OutEntries) : \A j \in (i + 1)..Len(OutEntries) :
              version_key(Locator(OutEntries[i])) = version_key(Locator(OutEntries[j]))
                 => ProducedAt(OutEntries[i].key) < ProducedAt(OutEntries[j].key)

\* C10's case: an output with two entries of equal sort key.
C10_Witness ==
    /\ pc = "done"
    /\ \E i \in 1..Len(OutEntries) : \E j \in (i + 1)..Len(OutEntries) :
          version_key(Locator(OutEntries[i])) = version_key(Locator(OutEntries[j]))

(***************************************************************************)
(* The three-segment numeric pattern of a locator.                         *)
(***************************************************************************)
MatchesPattern(loc) ==
    /\ NumSegments(loc) = 3
    /\ \A k \in 1..3 : IsIntLiteral(Segment(loc, k))

PatternKey(loc) ==
    <<LiteralValue(Segment(loc, 1)), LiteralValue(Segment(loc, 2)),
      LiteralValue(Segment(loc, 3))>>

\* C11: every entry whose locator fails the three-segment numeric pattern
\* is in the output, before every entry whose locator matches the pattern
\* with a key greater than (0, 0, 0).
C11_FailingPatternFirst ==
    pc = "done" =>
        /\ \A i \in 1..Len(json_entries) :
              ~MatchesPattern(Locator(json_entries[i])) =>
                  \E k \in 1..Len(OutEntries) : OutEntries[k] = json_entries[i]
        /\ \A i \in 1..Len(OutEntries) : \A j \in 1..Len(OutEntries) :
              ( /\ ~MatchesPattern(Locator(OutEntries[i]))
                /\ MatchesPattern(Locator(OutEntries[j]))
                /\ PatternKey(Locator(OutEntries[j])) # <<0, 0, 0>>
                /\ KeyLeq(<<0, 0, 0>>, PatternKey(Locator(OutEntries[j]))) )
              => i < j

(***************************************************************************)
(* What the claims about the readers speak of: the records a file was      *)
(* built from, their words being text written in UTF-8.                    *)
(***************************************************************************)
\* The UTF-8 bytes of a text of code points below 0x800.
Utf8Encode(text) ==
    Concat([i \in 1..Len(text) |->
               IF text[i] < 128 THEN <<text[i]>>
               ELSE <<192 + (text[i] \div 64), 128 + (text[i] % 64)>>])

DistinctWords(rs) ==
    \A i \in 1..Len(rs) : \A j \in (i + 1)..Len(rs) : rs[i].word # rs[j].word

\* The records a returned dict holds, each word in its UTF-8 bytes.
EncodedItems(d) ==
    {[word |-> Utf8Encode(d[i].key), offset |-> d[i].offset, size |-> d[i].size] :
        i \in 1..Len(d)}

\* C12: read_idx on the encoding of N records with pairwise distinct words
\* returns a mapping of exactly those N words, each with its (offset, size).
C12_IndexRoundTrip ==
    (rd_pc \in {"syn", "ret"} /\ in_tail = <<>> /\ DistinctWords(in_recs)) =>
        /\ idx_ret.tag = "ok"
        /\ Len(idx_ret.val) = Len(in_recs)
        /\ EncodedItems(idx_ret.val) = {in_recs[i] : i \in 1..Len(in_recs)}

\* C12's case: two records read back, one with the empty word, one with
\* an offset of 2^31 - 1.
C12_Witness ==
    /\ rd_pc = "ret" /\ in_tail = <<>> /\ DistinctWords(in_recs)
    /\ Len(in_recs) = 2
    /\ \E i, k \in 1..2 :
          /\ in_recs[i].word = <<>>
          /\ in_recs[k].offset = 2147483647
    /\ Len(idx_ret.val) = 2

\* The item a returned dict holds for a word: a set, empty when it has none.
ItemsFor(d, word) == {r \in EncodedItems(d) : r.word = word}

\* The last record of a record list that has the word.
LastWith(rs, word) ==
    rs[CHOOSE i \in 1..Len(rs) :
          rs[i].word = word /\ \A j \in (i + 1)..Len(rs) : rs[j].word # word]

\* C13: when a word occurs in several records of a file, the mapping that
\* read_idx / read_syn returns holds the word once, with the (offset, size)
\* of its last occurrence.
C13_LastDuplicateWins ==
    (rd_pc = "ret" /\ in_tail = <<>>) =>
        \A i \in 1..Len(in_recs) : \A j \in (i + 1)..Len(in_recs) :
            in_recs[i].word = in_recs[j].word =>
                /\ idx_ret.tag = "ok"
                /\ ItemsFor(idx_ret.val, in_recs[i].word)
                     = {LastWith(in_recs, in_recs[i].word)}
                /\ syn_ret.tag = "ok"
                /\ ItemsFor(syn_ret.val, in_recs[i].word)
                     = {LastWith(in_recs, in_recs[i].word)}

\* C14: on a stream that ends right after a complete record (the empty
\* stream included), read_idx and read_syn return, without raising, the
\* mapping of the stream's records and nothing more.
C14_CleanEndOfFile ==
    (rd_pc = "ret" /\ in_tail = <<>>) =>
        /\ idx_ret.tag = "ok"
        /\ EncodedItems(idx_ret.val) = {LastWith(in_recs, in_recs[i].word) : i \in 1..Len(in_recs)}
        /\ syn_ret.tag = "ok"
        /\ EncodedItems(syn_ret.val) = {LastWith(in_recs, in_recs[i].word) : i \in 1..Len(in_recs)}

\* The entries of the entry set with a headword, alias or not.
EntriesFor(key, alias) ==
    {k \in 1..Len(json_entries) :
        json_entries[k].key = key /\ IsAlias(json_entries[k].val) = alias}

\* C15: once the synonym loop has taken a record that shares its
\* (offset, size) with a main word, the run has not failed on it and the
\* entry set holds one alias entry for it; and after entry building every
\* main-index word has exactly one non-alias entry, whatever the synonyms
\* are spelt like.
C15_OneEntryPerRecord ==
    /\ \A j \in 1..i_syn :
          SharingWords(syn_map[j]) # {} =>
              /\ ~FailedAt("syn", j)
              /\ Cardinality(EntriesFor(syn_map[j].key, TRUE)) = 1
    /\ pc \in {"sort", "write", "done"} =>
          \A i \in 1..Len(idx.val) :
              Cardinality(EntriesFor(idx.val[i].key, FALSE)) = 1

\* An entry exposes gloss, locator and synonym token list; its headword is
\* the key it stands under.
ExposesAll(item) ==
    /\ HasField(item, "key")
    /\ HasField(item.val, "artha")
    /\ HasField(item.val, "text_number")
    /\ HasField(item.val, "synonyms")

\* C16: every entry the sort is given, and every entry of the output
\* document, exposes headword, gloss, locator and synonym token list, and
\* the sort does not fail for want of a locator.
C16_EntriesExposeFields ==
    /\ ~FailedAt("sort", 0)
    /\ pc = "sort" => \A k \in 1..Len(json_entries) : ExposesAll(json_entries[k])
    /\ pc = "done" => \A k \in 1..Len(OutEntries) : ExposesAll(OutEntries[k])

\* C16's case: an output of two entries, written by a run that had a
\* synonym record to resolve.
C16_Witness ==
    /\ pc = "done"
    /\ Len(OutEntries) >= 2
    /\ i_syn >= 1
    /\ \A k \in 1..Len(OutEntries) : ExposesAll(OutEntries[k])

\* A document is complete and sorted: the header fields, and every entry
\* of the entry set once, in ascending order of key.
CompleteSortedDoc(doc) ==
    /\ DOMAIN doc = {"dictionary_name", "version", "author", "entries"}
    /\ Len(doc.entries) = Len(json_entries)
    /\ {doc.entries[k] : k \in 1..Len(doc.entries)}
         = {json_entries[k] : k \in 1..Len(json_entries)}
    /\ \A i \in 1..Len(doc.entries) : \A j \in (i + 1)..Len(doc.entries) :
          KeyLeq(version_key(Locator(doc.entries[i])),
                 version_key(Locator(doc.entries[j])))

\* C17: a run that has completed left one complete sorted document; until
\* then, and in every run that aborted, the output file is untouched: no
\* step fails once the output file has been opened.
C17_CompleteOrNothing ==
    /\ pc = "done" => out_file.written /\ CompleteSortedDoc(out_file.doc)
    /\ pc # "done" => out_file = NotWritten

\* C17's case: a run that aborted after it had built entries.
C17_Witness ==
    /\ pc = "aborted"
    /\ json_entries # <<>>
    /\ err.step \in {"main", "syn"}
    /\ out_file = NotWritten

\* The kinds of file a run cannot do without.
Required == {"ifo", "idx", "dict"}

NothingParsed ==
    /\ metadata = <<>> /\ idx = Unset /\ dict_data = <<>> /\ syn_map = <<>>
    /\ json_entries = <<>>

\* C18: a folder that lacks the .ifo, the .idx or the .dict file makes the
\* run abort at file discovery, with no input parsed and no output written;
\* a folder that lacks only the .syn file does not abort there, and the
\* run goes on with an empty synonym mapping.
C18_MissingFileAborts ==
    /\ (~(Required \subseteq listing) /\ pc # "find") =>
          /\ FailedAt("find", 0)
          /\ NothingParsed
          /\ out_file = NotWritten
    /\ (Required \subseteq listing /\ "syn" \notin listing) =>
          /\ ~FailedAt("find", 0)
          /\ ~FailedAt("read_syn", 0)
          /\ pc \in {"main", "syn", "sort", "write", "done"} => syn_map = <<>>

\* C18's case: a run on a folder with an index, a blob and a synonym file
\* but no metadata file has aborted.
C18_Witness ==
    /\ listing = {"idx", "dict", "syn"}
    /\ idx_file # <<>> /\ dict_file # <<>>
    /\ pc = "aborted"

\* C19: the second run on the unchanged folder leaves the document the
\* first run left: what the first run put in the output file, or any other
\* state of it, has no part in the second run's output.
C19_RerunSameOutput ==
    (run = 2 /\ pc = "done") => out_file.doc = first_doc

\* C19's case: a second run has written a document of two entries.
C19_Witness ==
    /\ run = 2 /\ pc = "done"
    /\ Len(OutEntries) >= 2
    /\ Len(first_doc.entries) >= 2

\* The metadata mapping has the key.
HasKey(meta, key) == \E i \in 1..Len(meta) : meta[i].key = key

ValueOf(meta, key) == meta[CHOOSE i \in 1..Len(meta) : meta[i].key = key].val

\* The header fields of a document, each with the metadata key it reads.
HeaderFields ==
    { <<"dictionary_name", K_bookname>>, <<"version", K_version>>, <<"author", K_author>> }

\* C20: in the output document, name, version and author each equal the
\* metadata value when the key is present, and a non-empty placeholder
\* when it is absent.
C20_HeaderOrPlaceholder ==
    pc = "done" =>
        \A f \in HeaderFields :
            IF HasKey(metadata, f[2])
            THEN out_file.doc[f[1]] = ValueOf(metadata, f[2])
            ELSE out_file.doc[f[1]] # <<>>

\* C20 as amended: each of the three equals the metadata value when the key
\* is present; when it is absent, the name is "Unknown Dictionary" and
\* version and author are the empty string.
C20_HeaderOrDefault ==
    pc = "done" =>
        \A f \in HeaderFields :
            IF HasKey(metadata, f[2])
            THEN out_file.doc[f[1]] = ValueOf(metadata, f[2])
            ELSE out_file.doc[f[1]] =
                    (IF f[1] = "dictionary_name" THEN UnknownDictionary ELSE <<>>)

\* C20's case: a document written from metadata that has none of the keys.
C20_Witness ==
    /\ pc = "done"
    /\ metadata # <<>>
    /\ \A f \in HeaderFields : ~HasKey(metadata, f[2])
    /\ out_file.doc.version = <<>>

(***************************************************************************)
(* What the claim about read_ifo speaks of: the key and the value of a     *)
(* line, cut at its first "=" and trimmed of the blanks around.            *)
(***************************************************************************)
HasEq(line) == \E i \in 1..Len(line) : line[i] = EQ

FirstEq(line) ==
    CHOOSE i \in 1..Len(line) : line[i] = EQ /\ \A j \in 1..(i - 1) : line[j] # EQ

\* The text from its first to its last character that is not a blank.
Trimmed(t) ==
    LET inked == {i \in 1..Len(t) : ~IsSpace(t[i])}
    IN  IF inked = {} THEN <<>>
        ELSE SubSeq(t, CHOOSE i \in inked : \A j \in inked : i <= j,
                       CHOOSE i \in inked : \A j \in inked : j <= i)

KeyOfLine(line) == Trimmed(SubSeq(line, 1, FirstEq(line) - 1))

ValOfLine(line) == Trimmed(SubSeq(line, FirstEq(line) + 1, Len(line)))

\* For each key, the value of the last line that has the key.
DescriptorMapping(lines) ==
    {<<KeyOfLine(lines[i]), ValOfLine(lines[i])>> : i \in
        {i \in 1..Len(lines) :
            /\ HasEq(lines[i])
            /\ \A j \in (i + 1)..Len(lines) :
                  HasEq(lines[j]) => KeyOfLine(lines[j]) # KeyOfLine(lines[i])}}

\* C21: read_ifo raises nothing and returns the mapping that holds, for
\* every trimmed key before the first "=" of a line, the trimmed text after
\* the first "=" of the last line with that key; lines without "=" add
\* nothing.
C21_DescriptorMapping ==
    ifo_pc = "ret" =>
        /\ ifo_out.tag = "ok"
        /\ {<<ifo_out.val[i].key, ifo_out.val[i].val>> : i \in 1..Len(ifo_out.val)}
             = DescriptorMapping(ifo_lines)
        /\ Len(ifo_out.val) = Cardinality(DescriptorMapping(ifo_lines))

\* C21's case: a file of a line with two "=" and blanks to trim, and a
\* later line with the same key and another value, has been read.
C21_Witness ==
    /\ ifo_pc = "ret"
    /\ Len(ifo_lines) = 2
    /\ ifo_lines[1] = <<97, 61, 97, 61, 97>>
    /\ ifo_lines[2] = <<32, 97, 32, 61, 32, 97, 32>>
    /\ ifo_out.val = <<[key |-> <<97>>, val |-> <<97>>]>>

\* The reads are over: the run is at the loops or past them, or it aborted
\* there.
InputsLoaded ==
    \/ pc \in {"main", "syn", "sort", "write", "done"}
    \/ pc = "aborted" /\ err.step \in {"main", "syn", "sort"}

\* C22: once the blob is loaded it stays the bytes of the blob file, and
\* the slice of every index record with offset + size within the blob has
\* exactly size bytes, the blob's bytes offset .. offset + size - 1.
C22_SliceExact ==
    InputsLoaded =>
        /\ dict_data = dict_file
        /\ \A i \in 1..Len(idx.val) :
              LET rec == idx.val[i]
                  taken == py_slice(dict_data, rec.offset, rec.offset + rec.size)
              IN  InBounds(rec) =>
                      /\ Len(taken) = rec.size
                      /\ \A k \in 1..rec.size : taken[k] = dict_file[rec.offset + k]

\* C22's case: the main-word loop has sliced a record that ends before the
\* blob's end and a record that starts inside the blob.
C22_Witness ==
    /\ InputsLoaded
    /\ \E i \in 1..i_main :
          /\ idx.val[i].size > 0
          /\ idx.val[i].offset + idx.val[i].size < Len(dict_data)
    /\ \E i \in 1..i_main :
          /\ idx.val[i].offset > 0
          /\ idx.val[i].size > 0
          /\ InBounds(idx.val[i])

\* The places in the index of the words with a synonym record's range.
SharingPlaces(rec) ==
    {i \in 1..Len(idx.val) :
        idx.val[i].offset = rec.offset /\ idx.val[i].size = rec.size}

\* C23: when main-index words share the (offset, size) of the synonym
\* record just resolved, the main word found is the one that stands first
\* in the index.
C23_FirstMatchWins ==
    (i_syn >= 1 /\ SharingPlaces(syn_map[i_syn]) # {}) =>
        /\ main_word.found
        /\ \E i \in SharingPlaces(syn_map[i_syn]) :
              /\ main_word.word = idx.val[i].key
              /\ \A j \in SharingPlaces(syn_map[i_syn]) : i <= j

\* C23's case: a synonym record whose range two main words have has been
\* resolved.
C23_Witness ==
    /\ i_syn >= 1
    /\ Cardinality(SharingPlaces(syn_map[i_syn])) >= 2
    /\ main_word.found

\* C27: on a stream of complete records with ASCII words, the empty word
\* and NUL bytes in the numbers included, read_syn returns the mapping
\* that read_idx returns.
C27_SameLayout ==
    (rd_pc = "ret" /\ in_tail = <<>>) =>
        /\ idx_ret.tag = "ok"
        /\ syn_ret.tag = "ok"
        /\ DictItems(syn_ret.val) = DictItems(idx_ret.val)

\* What the four readers return for the files of the folder.
ReadersReturned ==
    /\ metadata = read_ifo(ifo_file).val
    /\ idx = read_idx(idx_file)
    /\ dict_data = dict_file
    /\ syn_map = read_syn(syn_file).val

\* C28: the steps of a run keep one order.  An entry is built only with
\* metadata, index, blob and synonym index loaded; a synonym is handled only
\* after every main entry is built; the sort is reached only with the last
\* synonym handled; the output is written only from the finished sort.
C28_FixedOrder ==
    [][ /\ (i_main' # i_main) =>
              (pc = "main" /\ ReadersReturned /\ i_syn = 0)
        /\ (i_syn' # i_syn) =>
              (pc = "syn" /\ i_main = Len(idx.val))
        /\ (pc' = "sort" /\ pc # "sort") =>
              (i_main' = Len(idx.val) /\ i_syn' = Len(syn_map'))
        /\ (pc = "sort" /\ pc' # "sort") =>
              (i_main = Len(idx.val) /\ i_syn = Len(syn_map) /\ ~out_file.written)
        /\ (out_file' # out_file) =>
              (pc = "write" /\ sorted_entries = py_sorted(json_entries))
      ]_vars

C28_Witness ==
    /\ pc = "done"
    /\ i_main >= 2
    /\ i_syn >= 1
    /\ out_file.written

\* C29: from the first entry on, no step changes the metadata, the index,
\* the synonym mapping or the blob, which stay what the readers returned,
\* and an entry of a main word stays in its place with its data.
C29_InputsUntouched ==
    [][ InputsLoaded =>
          /\ ReadersReturned
          /\ UNCHANGED <<metadata, idx, dict_data, syn_map>>
          /\ \A i \in 1..Len(json_entries) :
                /\ i <= Len(json_entries')
                /\ json_entries'[i] = json_entries[i]
      ]_vars

C29_Witness ==
    /\ pc = "done"
    /\ Len(json_entries) >= 2
    /\ i_syn >= 1
    /\ metadata # <<>>
    /\ ReadersReturned

(***************************************************************************)
(* What the claims about the split speak of.                               *)
(***************************************************************************)
PartNumbers == {p \in DOMAIN sp_folder : sp_folder[p].exists}

PartKeys(p) == KeysOf(sp_folder[p].data)

\* C24: after the split the part files of the folder hold exactly the keys
\* of the original, each key in one part only, and under each key the value
\* that the original holds under it.
C24_SplitKeepsData ==
    sp_pc \in {"verify", "ret"} =>
        /\ UNION {PartKeys(p) : p \in PartNumbers} = KeysOf(sp_original)
        /\ \A p, q \in PartNumbers : p # q => PartKeys(p) \cap PartKeys(q) = {}
        /\ \A p \in PartNumbers : \A k \in PartKeys(p) :
              EntryOf(sp_folder[p].data, k) = EntryOf(sp_original, k)

(***************************************************************************)
(* What the claims about the removal pass speak of.                        *)
(***************************************************************************)
MarkedResolved(e) == e.val.dict /\ e.val.resolved \in {"str_true", "bool_true"}

Kept(data) == SelectSeq(data, LAMBDA e : ~MarkedResolved(e))

\* C25: a part file a pass without --dry-run has handled holds the entries
\* it held before that are not marked resolved, of whatever shape, with
\* their data and in their order, and no others.
C25_OnlyResolvedRemoved ==
    ~dry_run =>
        \A j \in 1..rm_i : rm_folder[j].data = Kept(rm_start[j].data)

\* C30: a pass with --dry-run leaves every part file's header and entries
\* as they were, and the pass without --dry-run that follows it on the same
\* folder reports the before, after and removed counts it reported.
C30_DryRunChangesNothing ==
    /\ dry_run => rm_folder = rm_start
    /\ (rm_pass = 2 /\ rm_pc = "done" /\ rm_first.dry_run) =>
           rm_totals = rm_first.totals

C30_Witness ==
    /\ rm_pass = 2
    /\ rm_pc = "done"
    /\ rm_first.dry_run
    /\ rm_totals.total_removed > 0
    /\ rm_folder # rm_start

(***************************************************************************)
(* What the claims about the backport speak of.                            *)
(***************************************************************************)
LastEdit == bp_changes[bp_i]

IndexOfKey(d, key) == CHOOSE i \in 1..Len(d) : d[i].key = key

\* The shlokas of the file in which the entry's shloka, artha and verb form
\* are found.
FoundIn(data, e) ==
    {k \in 1..Len(data) :
        /\ shloka_matches(e.shloka_text, data[k].key)
        /\ data[k].val.dict
        /\ \E a \in 1..Len(data[k].val.items) :
              /\ data[k].val.items[a].key = e.artha
              /\ data[k].val.items[a].val.dict
              /\ \E f \in 1..Len(data[k].val.items[a].val.items) :
                    data[k].val.items[a].val.items[f].key = e.form}

NonBlank(text) == \E i \in 1..Len(text) : ~IsSpace(text[i])

Wanted(e) == IF NonBlank(e.gati) THEN <<e.gati, e.dhatu_ids>> ELSE <<e.dhatu_ids>>

\* The file with the value of one verb form replaced and all else as it was.
WithForm(data, k, e) ==
    LET a == IndexOfKey(data[k].val.items, e.artha)
        f == IndexOfKey(data[k].val.items[a].val.items, e.form)
    IN  [data EXCEPT ![k].val.items[a].val.items[f].val = Wanted(e)]

\* C26: after the turn for an edited entry whose file is found, if its
\* shloka, artha and verb form are found the file is what it was with that
\* verb form, in the first such shloka, set to [gati, dhatu_ids] for a
\* non-blank gati and to [dhatu_ids] otherwise, whatever 'resolved' and
\* 'comment' are, and the turn counts an update; if they are not found the
\* file is what it was and the turn counts a not-found.
C26_BackportSetsOneForm ==
    (bp_i >= 1 /\ bp_ret # "no_file") =>
        LET found == FoundIn(bp_before, LastEdit)
        IN  IF found # {}
            THEN /\ bp_ret = "updated"
                 /\ \E k \in found :
                       /\ \A j \in found : k <= j
                       /\ bp_data = WithForm(bp_before, k, LastEdit)
            ELSE /\ bp_ret = "not_found"
                 /\ bp_data = bp_before

C26_Witness ==
    /\ bp_i >= 1
    /\ bp_ret = "updated"
    /\ LastEdit.resolved = "str_true"
    /\ NonBlank(LastEdit.gati)
    /\ Cardinality(FoundIn(bp_before, LastEdit)) >= 2
    /\ bp_data # bp_before

====
